---- MODULE Spec2Model ----
(***************************************************************************)
(* Model of bww/go-mime: the Accept-header negotiation of v1/accept        *)
(* (accept.go) and the comparison methods of mime.Type (v1/format.go).     *)
(*                                                                         *)
(* A Go string is a TLA+ string: len(s) is Len(s), s[i] is the             *)
(* one-character string SubSeq(s, i+1, i+1), s[i:] is SubSeq(s, i+1,       *)
(* Len(s)).  A byte's value is Ord(c).  The bytes a TLA+ string can hold   *)
(* here are HTAB and the printable ASCII characters except the backquote.  *)
(***************************************************************************)
EXTENDS Integers, Sequences, FiniteSets, TLC

VARIABLES
    availableMediaTypes,  \* the caller's list of MediaType values
    acceptHeaders,        \* request.Header.Values("Accept")
    listed,               \* the media ranges the client wrote into the header
    pc,                   \* position in MatchAcceptableMediaType / the call made
    s,                    \* the remaining input
    mediaTypeCount,       \* counter of the media-range loop
    acceptableMediaType,  \* the media range being parsed
    weight,               \* its weight
    extensionParameters,  \* its Accept extension parameters
    weights,              \* one scoring record per available media type
    resultIndex,          \* the index chosen by the final loop, -1 for none
    result,               \* what MatchAcceptableMediaType returned
    arg,                  \* the argument(s) of a call of a pure function
    out                   \* what that call returned

vars == <<availableMediaTypes, acceptHeaders, listed, pc, s, mediaTypeCount,
          acceptableMediaType, weight, extensionParameters, weights,
          resultIndex, result, arg, out>>

negotiationVars == <<availableMediaTypes, acceptHeaders, listed, s, mediaTypeCount,
                     acceptableMediaType, weight, extensionParameters, weights,
                     resultIndex, result>>

-----------------------------------------------------------------------------
(* Bytes *)

\* ASCII 0x20 .. 0x5F and 0x61 .. 0x7E, in order.
AsciiLo == " !\"#$%&'()*+,-./0123456789:;<=>?@ABCDEFGHIJKLMNOPQRSTUVWXYZ[\\]^_"
AsciiHi == "abcdefghijklmnopqrstuvwxyz{|}~"

At(str, i) == SubSeq(str, i, i)

OrdTable ==
    [c \in {At(AsciiLo, i) : i \in 1..Len(AsciiLo)}
           \cup {At(AsciiHi, i) : i \in 1..Len(AsciiHi)} \cup {"\t"} |->
        IF c = "\t" THEN 9
        ELSE IF \E i \in 1..Len(AsciiLo) : At(AsciiLo, i) = c
             THEN 31 + (CHOOSE i \in 1..Len(AsciiLo) : At(AsciiLo, i) = c)
             ELSE 96 + (CHOOSE i \in 1..Len(AsciiHi) : At(AsciiHi, i) = c)]

ChrTable == [n \in 97..122 |-> At(AsciiHi, n - 96)]

Ord(c) == OrdTable[c]

\* s[from:], from counted from 0 as in Go
From(str, from) == SubSeq(str, from + 1, Len(str))

\* s[:to]
UpTo(str, to) == SubSeq(str, 1, to)

isWhiteSpaceChar(c) == Ord(c) = 9 \/ Ord(c) = 32

isDigitChar(c) == Ord(c) >= 48 /\ Ord(c) <= 57

isAlphaChar(c) == (Ord(c) >= 65 /\ Ord(c) <= 90) \/ (Ord(c) >= 97 /\ Ord(c) <= 122)

isTokenChar(c) ==
    \/ c \in {"!", "#", "$", "%", "&", "'", "*", "+", "-", ".", "^", "_", "|", "~"}
    \/ Ord(c) = 96
    \/ isDigitChar(c)
    \/ isAlphaChar(c)

isVisibleChar(c) == Ord(c) >= 33 /\ Ord(c) <= 126

isObsoleteTextChar(c) == Ord(c) >= 128 /\ Ord(c) <= 255

isQuotedTextChar(c) ==
    \/ Ord(c) = 9 \/ Ord(c) = 32
    \/ Ord(c) = 33
    \/ (Ord(c) >= 35 /\ Ord(c) <= 91)
    \/ (Ord(c) >= 93 /\ Ord(c) <= 126)
    \/ isObsoleteTextChar(c)

isQuotedPairChar(c) ==
    \/ Ord(c) = 9 \/ Ord(c) = 32
    \/ isVisibleChar(c)
    \/ isObsoleteTextChar(c)

\* strings.ToLower on a string of ASCII bytes
RECURSIVE ToLower(_)
ToLower(str) ==
    IF str = "" THEN ""
    ELSE LET c == Head(str)
         IN  (IF Ord(c) >= 65 /\ Ord(c) <= 90 THEN ChrTable[Ord(c) + 32] ELSE c)
             \o ToLower(Tail(str))

-----------------------------------------------------------------------------
(* The lexical scanner *)

RECURSIVE skipWhiteSpaces(_)
skipWhiteSpaces(str) ==
    IF str = "" THEN ""
    ELSE IF ~isWhiteSpaceChar(Head(str)) THEN str
    ELSE skipWhiteSpaces(Tail(str))

\* the index at which consumeToken's loop stops: the first byte from i on that
\* is no token character, or len(s)
RECURSIVE TokenEnd(_, _)
TokenEnd(str, i) ==
    IF i >= Len(str) THEN Len(str)
    ELSE IF ~isTokenChar(At(str, i + 1)) THEN i
    ELSE TokenEnd(str, i + 1)

tokenKeepingCase(str, i) ==
    [token |-> UpTo(str, i), remaining |-> From(str, i), consumed |-> i > 0]

\* what consumeToken returns when its loop stops at index i
tokenUpTo(str, i) ==
    [token |-> ToLower(UpTo(str, i)), remaining |-> From(str, i), consumed |-> i > 0]

consumeToken(str) == tokenUpTo(str, TokenEnd(str, 0))

\* consumeQuotedString's loop from index on, with the bytes written so far
RECURSIVE QuotedLoop(_, _, _)
QuotedLoop(str, index, built) ==
    IF index >= Len(str)
    THEN [token |-> ToLower(built), remaining |-> From(str, index), consumed |-> TRUE]
    ELSE IF At(str, index + 1) = "\\"
    THEN IF Len(str) <= index + 1 \/ ~isQuotedPairChar(At(str, index + 2))
         THEN [token |-> "", remaining |-> str, consumed |-> FALSE]
         ELSE QuotedLoop(str, index + 2, built \o At(str, index + 2))
    ELSE IF isQuotedTextChar(At(str, index + 1))
    THEN QuotedLoop(str, index + 1, built \o At(str, index + 1))
    ELSE [token |-> ToLower(built), remaining |-> From(str, index), consumed |-> TRUE]

consumeQuotedString(str) == QuotedLoop(str, 0, "")

NoType(rest) == [type |-> "", subtype |-> "", remaining |-> rest, consumed |-> FALSE]

\* consumeType from line 146 on: t is the type's token, subt the subtype's
typeWithSubtype(t, subt) ==
    IF ~subt.consumed THEN NoType(subt.remaining)
    ELSE IF t.token = "*" /\ subt.token # "*" THEN NoType(subt.remaining)
    ELSE [type |-> t.token, subtype |-> subt.token,
          remaining |-> skipWhiteSpaces(subt.remaining), consumed |-> TRUE]

\* consumeType from line 136 on
typeFromToken(t) ==
    IF ~t.consumed THEN NoType(t.remaining)
    ELSE IF Len(t.remaining) = 0 \/ Head(t.remaining) # "/" THEN NoType(t.remaining)
    ELSE typeWithSubtype(t, consumeToken(Tail(t.remaining)))

consumeType(str) == typeFromToken(consumeToken(skipWhiteSpaces(str)))

NoParameter(rest) == [key |-> "", value |-> "", remaining |-> rest, consumed |-> FALSE]

\* consumeParameter, lines 182-190: the value was a quoted string
parameterWithQuotedValue(key, q) ==
    IF ~q.consumed THEN NoParameter(q.remaining)
    ELSE IF Len(q.remaining) = 0 \/ Head(q.remaining) # "\"" THEN NoParameter(q.remaining)
    ELSE [key |-> key.token, value |-> q.token,
          remaining |-> skipWhiteSpaces(Tail(q.remaining)), consumed |-> TRUE]

\* consumeParameter, lines 193-201: the value was a token
parameterWithTokenValue(key, v) ==
    IF ~v.consumed THEN NoParameter(v.remaining)
    ELSE [key |-> key.token, value |-> v.token,
          remaining |-> skipWhiteSpaces(v.remaining), consumed |-> TRUE]

\* consumeParameter from line 177 on: s1 follows the equal sign
parameterValue(key, s1) ==
    IF Len(s1) > 0 /\ Head(s1) = "\""
    THEN parameterWithQuotedValue(key, consumeQuotedString(Tail(s1)))
    ELSE parameterWithTokenValue(key, consumeToken(s1))

\* consumeParameter from line 167 on
parameterFromKey(key) ==
    IF ~key.consumed THEN NoParameter(key.remaining)
    ELSE IF Len(key.remaining) = 0 \/ Head(key.remaining) # "=" THEN NoParameter(key.remaining)
    ELSE parameterValue(key, Tail(key.remaining))

consumeParameter(str) == parameterFromKey(consumeToken(skipWhiteSpaces(str)))

-----------------------------------------------------------------------------
(* Quality values *)

NoWeight == [weight |-> 0, ok |-> FALSE]

\* getWeight's loop from index i on
RECURSIVE WeightLoop(_, _, _, _)
WeightLoop(str, i, res, multiplier) ==
    IF i >= Len(str) THEN [weight |-> res, ok |-> TRUE]
    ELSE LET c == At(str, i + 1)
         IN  IF i = 0
             THEN IF c # "0" /\ c # "1" THEN NoWeight
                  ELSE WeightLoop(str, i + 1, (Ord(c) - 48) * multiplier, multiplier \div 10)
             ELSE IF i = 1
             THEN IF c # "." THEN NoWeight
                  ELSE WeightLoop(str, i + 1, res, multiplier)
             ELSE IF (Head(str) = "1" /\ c # "0") \/ (Ord(c) < 48 \/ Ord(c) > 57)
                  THEN NoWeight
                  ELSE WeightLoop(str, i + 1, res + (Ord(c) - 48) * multiplier,
                                  multiplier \div 10)

getWeight(str) ==
    IF Len(str) > 5 THEN NoWeight
    ELSE WeightLoop(str, 0, 0, 1000)

-----------------------------------------------------------------------------
(* Media types *)

\* Parameters: a Go map from string to string; the nil and the empty map alike
EmptyParameters == [k \in {} |-> ""]

\* m[key] = value
Put(m, key, value) ==
    [k \in DOMAIN m \cup {key} |-> IF k = key THEN value ELSE m[k]]

\* MediaType{}
ZeroMediaType == [Type |-> "", Subtype |-> "", Parameters |-> EmptyParameters]

compareMediaTypesIgnoringValues(checkMediaType, mediaType) ==
    /\ checkMediaType.Type = "*" \/ checkMediaType.Type = mediaType.Type
    /\ checkMediaType.Subtype = "*" \/ checkMediaType.Subtype = mediaType.Subtype

compareMediaTypes(checkMediaType, mediaType) ==
    IF /\ checkMediaType.Type = "*" \/ checkMediaType.Type = mediaType.Type
       /\ checkMediaType.Subtype = "*" \/ checkMediaType.Subtype = mediaType.Subtype
    THEN \A checkKey \in DOMAIN checkMediaType.Parameters :
            /\ checkKey \in DOMAIN mediaType.Parameters
            /\ mediaType.Parameters[checkKey] = checkMediaType.Parameters[checkKey]
    ELSE FALSE

getPrecedence(checkMediaType, mediaType) ==
    IF Len(mediaType.Type) = 0 \/ Len(mediaType.Subtype) = 0 THEN TRUE
    ELSE IF \/ mediaType.Type = "*" /\ checkMediaType.Type # "*"
            \/ mediaType.Subtype = "*" /\ checkMediaType.Subtype # "*"
            \/ Cardinality(DOMAIN mediaType.Parameters)
                   < Cardinality(DOMAIN checkMediaType.Parameters)
    THEN TRUE
    ELSE FALSE

\* the loop over ";parameter" of NewMediaType, lines 284-295
RECURSIVE ParameterLoop(_, _)
parameterLoopTurn(p, parameters) ==
    IF ~p.consumed THEN [ok |-> FALSE, parameters |-> EmptyParameters]
    ELSE ParameterLoop(p.remaining, Put(parameters, p.key, p.value))

ParameterLoop(str, parameters) ==
    IF Len(str) > 0 /\ Head(str) = ";"
    THEN parameterLoopTurn(consumeParameter(Tail(str)), parameters)
    ELSE [ok |-> TRUE, parameters |-> parameters]

\* NewMediaType from line 278 on
mediaTypeWithParameters(t, ps) ==
    IF ~ps.ok THEN ZeroMediaType
    ELSE [Type |-> t.type, Subtype |-> t.subtype, Parameters |-> ps.parameters]

mediaTypeFromType(t) ==
    IF ~t.consumed THEN ZeroMediaType
    ELSE mediaTypeWithParameters(t, ParameterLoop(t.remaining, EmptyParameters))

NewMediaType(str) == mediaTypeFromType(consumeType(str))

\* what String writes for the parameters in keys: Go ranges over a map in an
\* order of its own choosing, so every order is a possible outcome
RECURSIVE ParameterStrings(_, _)
ParameterStrings(parameters, keys) ==
    IF keys = {} THEN {""}
    ELSE UNION {{";" \o key \o "=" \o parameters[key] \o rest :
                    rest \in ParameterStrings(parameters, keys \ {key})} : key \in keys}

\* the strings MediaType.String can return
MediaTypeStrings(mediaType) ==
    {(IF Len(mediaType.Type) > 0 \/ Len(mediaType.Subtype) > 0
      THEN mediaType.Type \o "/" \o mediaType.Subtype
      ELSE "") \o ps :
        ps \in ParameterStrings(mediaType.Parameters, DOMAIN mediaType.Parameters)}

-----------------------------------------------------------------------------
(* MatchAcceptableMediaType *)

ZeroWeight ==
    [mediaType |-> ZeroMediaType, extensionParameters |-> EmptyParameters,
     weight |-> 0, order |-> 0]

Returned(mediaType, parameters, err) ==
    [mediaType |-> mediaType, extensionParameters |-> parameters, err |-> err]

NothingReturned == Returned(ZeroMediaType, EmptyParameters, "nil")

\* return MediaType{}, Parameters{}, err
Fail(err) ==
    /\ pc' = "done"
    /\ result' = Returned(ZeroMediaType, EmptyParameters, err)

\* lines 369-385: the two early returns, then the set-up of the loop
Begin ==
    /\ pc = "begin"
    /\ IF Len(availableMediaTypes) = 0
       THEN /\ Fail("ErrNoAvailableTypeGiven")
            /\ UNCHANGED <<s, weights>>
       ELSE IF Len(acceptHeaders) = 0
       THEN /\ pc' = "done"
            /\ result' = Returned(availableMediaTypes[1], EmptyParameters, "nil")
            /\ UNCHANGED <<s, weights>>
       ELSE /\ s' = acceptHeaders[1]
            /\ weights' = [i \in 1..Len(availableMediaTypes) |-> ZeroWeight]
            /\ pc' = "range"
            /\ UNCHANGED result
    /\ UNCHANGED <<availableMediaTypes, acceptHeaders, listed, mediaTypeCount,
                   acceptableMediaType, weight, extensionParameters, resultIndex, arg, out>>

\* lines 387-404: the loop's condition, the comma, the media range's type
RangeHead ==
    /\ pc = "range"
    /\ IF Len(s) = 0
       THEN /\ pc' = "finish"
            /\ UNCHANGED <<s, acceptableMediaType, weight, result>>
       ELSE IF mediaTypeCount > 0 /\ Head(s) # ","
       THEN /\ pc' = "finish"
            /\ UNCHANGED <<s, acceptableMediaType, weight, result>>
       ELSE LET t == consumeType(IF mediaTypeCount > 0 THEN Tail(s) ELSE s)
            IN  /\ s' = t.remaining
                /\ IF ~t.consumed
                   THEN /\ Fail("ErrInvalidMediaType")
                        /\ UNCHANGED <<acceptableMediaType, weight>>
                   ELSE /\ acceptableMediaType' =
                               [Type |-> t.type, Subtype |-> t.subtype,
                                Parameters |-> EmptyParameters]
                        /\ weight' = 1000
                        /\ pc' = "params"
                        /\ UNCHANGED result
    /\ UNCHANGED <<availableMediaTypes, acceptHeaders, listed, mediaTypeCount,
                   extensionParameters, weights, resultIndex, arg, out>>

\* lines 407-427: one turn of the loop over the media type parameters
Parameter ==
    /\ pc = "params"
    /\ IF Len(s) > 0 /\ Head(s) = ";"
       THEN LET p == consumeParameter(Tail(s))
            IN  /\ s' = p.remaining
                /\ IF ~p.consumed
                   THEN /\ Fail("ErrInvalidParameter")
                        /\ UNCHANGED <<acceptableMediaType, weight, extensionParameters>>
                   ELSE IF p.key = "q"
                   THEN LET w == getWeight(p.value)
                        IN  IF ~w.ok
                            THEN /\ Fail("ErrInvalidWeight")
                                 /\ weight' = w.weight
                                 /\ UNCHANGED <<acceptableMediaType, extensionParameters>>
                            ELSE /\ weight' = w.weight
                                 /\ extensionParameters' = EmptyParameters
                                 /\ pc' = "extensions"
                                 /\ UNCHANGED <<acceptableMediaType, result>>
                   ELSE /\ acceptableMediaType' =
                               [acceptableMediaType EXCEPT
                                   !.Parameters = Put(@, p.key, p.value)]
                        /\ pc' = "params"
                        /\ UNCHANGED <<weight, extensionParameters, result>>
       ELSE /\ extensionParameters' = EmptyParameters
            /\ pc' = "extensions"
            /\ UNCHANGED <<s, acceptableMediaType, weight, result>>
    /\ UNCHANGED <<availableMediaTypes, acceptHeaders, listed, mediaTypeCount,
                   weights, resultIndex, arg, out>>

remainingKept(str, p) == str

\* line 436, s = remaining: the input after the parameter p read from str
remainingAfter(str, p) == p.remaining

\* lines 428-439: one turn of the loop over the Accept extension parameters
ExtensionParameter ==
    /\ pc = "extensions"
    /\ IF Len(s) > 0 /\ Head(s) = ";"
       THEN LET p == consumeParameter(Tail(s))
            IN  IF ~p.consumed
                THEN /\ Fail("ErrInvalidParameter")
                     /\ UNCHANGED <<s, extensionParameters>>
                ELSE /\ s' = remainingAfter(s, p)
                     /\ extensionParameters' = Put(extensionParameters, p.key, p.value)
                     /\ pc' = "extensions"
                     /\ UNCHANGED result
       ELSE /\ pc' = "score"
            /\ UNCHANGED <<s, extensionParameters, result>>
    /\ UNCHANGED <<availableMediaTypes, acceptHeaders, listed, mediaTypeCount,
                   acceptableMediaType, weight, weights, resultIndex, arg, out>>

\* lines 441-451 and the loop's mediaTypeCount++
Score ==
    /\ pc = "score"
    /\ weights' =
           [i \in 1..Len(availableMediaTypes) |->
               IF /\ compareMediaTypes(acceptableMediaType, availableMediaTypes[i])
                  /\ getPrecedence(acceptableMediaType, weights[i].mediaType)
               THEN [mediaType |-> acceptableMediaType,
                     extensionParameters |-> extensionParameters,
                     weight |-> weight,
                     order |-> mediaTypeCount]
               ELSE weights[i]]
    /\ s' = skipWhiteSpaces(s)
    /\ mediaTypeCount' = mediaTypeCount + 1
    /\ pc' = "range"
    /\ UNCHANGED <<availableMediaTypes, acceptHeaders, listed, acceptableMediaType,
                   weight, extensionParameters, resultIndex, result, arg, out>>

inputLeftIgnored(str) == FALSE

\* line 455
inputLeft(str) == Len(str) > 0

takesOverByWeightAlone(candidate, current) ==
    candidate.weight > current.weight

takesOverLatestOrder(candidate, current) ==
    \/ candidate.weight > current.weight
    \/ candidate.weight = current.weight /\ candidate.order > current.order

\* lines 462-463: whether slot i replaces the slot chosen so far
takesOver(candidate, current) ==
    \/ candidate.weight > current.weight
    \/ candidate.weight = current.weight /\ candidate.order < current.order

\* lines 459-469: the loop from index i on (indices from 0, as in Go)
RECURSIVE SelectLoop(_, _, _)
SelectLoop(ws, i, chosen) ==
    IF i >= Len(ws) THEN chosen
    ELSE IF chosen # -1
    THEN SelectLoop(ws, i + 1, IF takesOver(ws[i + 1], ws[chosen + 1]) THEN i ELSE chosen)
    ELSE SelectLoop(ws, i + 1, IF ws[i + 1].weight > 0 THEN i ELSE chosen)

\* lines 454-475
Finish ==
    /\ pc = "finish"
    /\ IF inputLeft(s)
       THEN /\ Fail("ErrInvalidMediaRange")
            /\ UNCHANGED resultIndex
       ELSE LET chosen == SelectLoop(weights, 0, -1)
            IN  /\ resultIndex' = chosen
                /\ IF chosen = -1
                   THEN Fail("ErrNoAcceptableTypeFound")
                   ELSE /\ pc' = "done"
                        /\ result' = Returned(availableMediaTypes[chosen + 1],
                                              weights[chosen + 1].extensionParameters,
                                              "nil")
    /\ UNCHANGED <<availableMediaTypes, acceptHeaders, listed, s, mediaTypeCount,
                   acceptableMediaType, weight, extensionParameters, weights, arg, out>>

-----------------------------------------------------------------------------
(* The requests negotiated: what the server offers and what the client lists *)

\* the most media ranges a generated Accept header lists
MaxRanges == 3

\* a well-formed media range as the client wrote it (text) and what it says:
\* its type and subtype, its parameters before q, its quality value times 1000
\* and its Accept extension parameters
Range(text, type, subtype, parameters, q, ext) ==
    [text |-> text, fault |-> "none", type |-> type, subtype |-> subtype,
     parameters |-> parameters, q |-> q, ext |-> ext]

\* an element of the list that breaks the grammar, and where
Faulty(text, fault) ==
    [text |-> text, fault |-> fault, type |-> "", subtype |-> "",
     parameters |-> EmptyParameters, q |-> 0, ext |-> EmptyParameters]

One(key, value) == Put(EmptyParameters, key, value)

Vocabulary ==
    { Range("t/s", "t", "s", EmptyParameters, 1000, EmptyParameters),
      Range("t/s;q=0.5", "t", "s", EmptyParameters, 500, EmptyParameters),
      Range("t/*;p=1;q=0.9", "t", "*", One("p", "1"), 900, EmptyParameters),
      Range("*/*;q=0.5", "*", "*", EmptyParameters, 500, EmptyParameters),
      Range(" t/u ; q=0.9", "t", "u", EmptyParameters, 900, EmptyParameters),
      Range("t/u;q=0", "t", "u", EmptyParameters, 0, EmptyParameters),
      Range("T/S;P=1;q=0.5;e=\"A\\\"b\"", "t", "s", One("p", "1"), 500, One("e", "a\"b")),
      Range("t/s;p=2", "t", "s", One("p", "2"), 1000, EmptyParameters),
      Faulty("t/s;q=1;e", "extension"),   \* a parameter after q without "=value"
      Faulty("t/s;p;q=1", "parameter"),   \* a parameter before q without "=value"
      Faulty("t/s;q=1.5", "weight"),      \* a quality value above 1
      Faulty("t/s x", "junk"),            \* a complete range, then no comma
      Faulty("t/u;q=0.9;e=1]", "junk"),   \* the same after extension parameters
      Faulty("*/s", "type") }             \* a wildcard type with a concrete subtype

Lists(V, n) == UNION {[1..k -> V] : k \in 0..n}

\* the header's value: the listed elements, separated by commas
RECURSIVE Join(_)
Join(l) ==
    IF Len(l) = 0 THEN ""
    ELSE IF Len(l) = 1 THEN l[1].text
    ELSE l[1].text \o "," \o Join(Tail(l))

Offered == <<NewMediaType("t/s;p=1"), NewMediaType("t/u")>>

Scenario(available, headers, l) ==
    [available |-> available, headers |-> headers, listed |-> l]

\* the example of the specification's section 8
ExampleAvailable == <<NewMediaType("text/html"), NewMediaType("application/json")>>

ExampleListed ==
    << Range("application/json;q=0.9", "application", "json", EmptyParameters, 900,
             EmptyParameters),
       Range(" text/html;q=0.9", "text", "html", EmptyParameters, 900, EmptyParameters) >>

Scenarios ==
    {Scenario(Offered, <<Join(l)>>, l) : l \in Lists(Vocabulary, MaxRanges)}
    \cup {Scenario(ExampleAvailable, <<Join(ExampleListed)>>, ExampleListed)}
    \cup {Scenario(Offered, <<>>, <<>>)}                      \* no Accept header
    \cup {Scenario(<<>>, <<Join(l)>>, l) : l \in Lists(Vocabulary, 1)}

AtRest ==
    /\ s = ""
    /\ mediaTypeCount = 0
    /\ acceptableMediaType = ZeroMediaType
    /\ weight = 0
    /\ extensionParameters = EmptyParameters
    /\ weights = <<>>
    /\ resultIndex = -1
    /\ result = NothingReturned

Init ==
    /\ \E sc \in Scenarios :
          /\ availableMediaTypes = sc.available
          /\ acceptHeaders = sc.headers
          /\ listed = sc.listed
    /\ pc = "begin"
    /\ AtRest
    /\ arg = ""
    /\ out = ""

Next ==
    \/ Begin
    \/ RangeHead
    \/ Parameter
    \/ ExtensionParameter
    \/ Score
    \/ Finish

Spec == Init /\ [][Next]_vars

-----------------------------------------------------------------------------
(* getWeight, called on its own *)

\* the longest string getWeight is called on
MaxWeightLen == 6

WeightAlphabet == {"0", "1", "5", "9", ".", "a"}

RECURSIVE Strings(_, _)
Strings(alphabet, n) ==
    IF n = 0 THEN {""}
    ELSE {""} \cup {c \o str : c \in alphabet, str \in Strings(alphabet, n - 1)}

InitWeight ==
    /\ availableMediaTypes = <<>>
    /\ acceptHeaders = <<>>
    /\ listed = <<>>
    /\ AtRest
    /\ pc = "getWeight"
    /\ arg \in Strings(WeightAlphabet, MaxWeightLen)
    /\ out = NoWeight

CallGetWeight ==
    /\ pc = "getWeight"
    /\ out' = getWeight(arg)
    /\ pc' = "returned"
    /\ UNCHANGED <<negotiationVars, arg>>

SpecWeight == InitWeight /\ [][CallGetWeight]_vars

-----------------------------------------------------------------------------
(* NewMediaType and MediaType.String, called one after the other *)

\* the longest generated argument of NewMediaType
MaxTypeLen == 4

TypeAlphabet == {"t", "S", "*", "/", " ", ";"}

MediaTypeArguments ==
    Strings(TypeAlphabet, MaxTypeLen)
    \cup {"t/s;p=1", "T/S; P=\"A b\" ;r=2", "t/s;p", "Text/Plain", "text/x-Go+json"}

InitMediaType ==
    /\ availableMediaTypes = <<>>
    /\ acceptHeaders = <<>>
    /\ listed = <<>>
    /\ AtRest
    /\ pc = "NewMediaType"
    /\ arg \in MediaTypeArguments
    /\ out = [mediaType |-> ZeroMediaType, string |-> ""]

CallNewMediaType ==
    /\ pc = "NewMediaType"
    /\ out' = [out EXCEPT !.mediaType = NewMediaType(arg)]
    /\ pc' = "String"
    /\ UNCHANGED <<negotiationVars, arg>>

CallString ==
    /\ pc = "String"
    /\ \E str \in MediaTypeStrings(out.mediaType) : out' = [out EXCEPT !.string = str]
    /\ pc' = "returned"
    /\ UNCHANGED <<negotiationVars, arg>>

NextMediaType == CallNewMediaType \/ CallString

SpecMediaType == InitMediaType /\ [][NextMediaType]_vars

-----------------------------------------------------------------------------
(* mime.Type: Base, Equals, Matches (format.go) *)

\* strings.Index(str, ";"), looking from index i on
RECURSIVE IndexOfSemicolon(_, _)
IndexOfSemicolon(str, i) ==
    IF i >= Len(str) THEN -1
    ELSE IF At(str, i + 1) = ";" THEN i
    ELSE IndexOfSemicolon(str, i + 1)

isSpace(c) == c = " " \/ c = "\t"

RECURSIVE TrimLeft(_)
TrimLeft(str) ==
    IF str = "" THEN ""
    ELSE IF isSpace(Head(str)) THEN TrimLeft(Tail(str))
    ELSE str

RECURSIVE TrimRight(_)
TrimRight(str) ==
    IF str = "" THEN ""
    ELSE IF isSpace(At(str, Len(str))) THEN TrimRight(UpTo(str, Len(str) - 1))
    ELSE str

\* strings.TrimSpace
TrimSpace(str) == TrimRight(TrimLeft(str))

\* strings.EqualFold on ASCII strings
EqualFold(a, b) == ToLower(a) = ToLower(b)

baseUpTo(t, x) == IF x >= 0 THEN TrimSpace(UpTo(t, x)) ELSE t

Base(t) == baseUpTo(t, IndexOfSemicolon(t, 0))

Equals(t, other) == EqualFold(t, other)

Matches(t, other) == EqualFold(Base(t), Base(other))

TypeBases == {"t/s", "T/S", "t/u", "t/s ", " t/s", ""}

TypeParameters == {"", ";p=1", ";P=1", " ;p=1", ";p=2", ";"}

TypeValues == {b \o ps : b \in TypeBases, ps \in TypeParameters}

InitType ==
    /\ availableMediaTypes = <<>>
    /\ acceptHeaders = <<>>
    /\ listed = <<>>
    /\ AtRest
    /\ pc = "Equals"
    /\ arg \in [A : TypeValues, B : TypeValues]
    /\ out = [Equal |-> FALSE, Match |-> FALSE]

\* e.A.Equals(e.B)
CallEquals ==
    /\ pc = "Equals"
    /\ out' = [out EXCEPT !.Equal = Equals(arg.A, arg.B)]
    /\ pc' = "Matches"
    /\ UNCHANGED <<negotiationVars, arg>>

\* e.A.Matches(e.B)
CallMatches ==
    /\ pc = "Matches"
    /\ out' = [out EXCEPT !.Match = Matches(arg.A, arg.B)]
    /\ pc' = "returned"
    /\ UNCHANGED <<negotiationVars, arg>>

NextType == CallEquals \/ CallMatches

SpecType == InitType /\ [][NextType]_vars

-----------------------------------------------------------------------------
(* What the client's list says, read off the list and not off the parser *)

\* MatchAcceptableMediaType has returned from a call that read an Accept header
Completed ==
    /\ pc = "done"
    /\ Len(availableMediaTypes) > 0
    /\ Len(acceptHeaders) > 0

\* ... and the header parsed without error
ParsedWhole == Completed /\ result.err \in {"nil", "ErrNoAcceptableTypeFound"}

Succeeded == Completed /\ result.err = "nil"

\* the fault of the first listed element that has one
FirstFault ==
    IF \A k \in DOMAIN listed : listed[k].fault = "none" THEN "none"
    ELSE listed[CHOOSE k \in DOMAIN listed :
                    /\ listed[k].fault # "none"
                    /\ \A j \in 1..(k - 1) : listed[j].fault = "none"].fault

\* the listed range e matches the media type
RangeMatches(e, mediaType) ==
    /\ e.fault = "none"
    /\ e.type = "*" \/ e.type = mediaType.Type
    /\ e.subtype = "*" \/ e.subtype = mediaType.Subtype
    /\ \A key \in DOMAIN e.parameters :
          /\ key \in DOMAIN mediaType.Parameters
          /\ mediaType.Parameters[key] = e.parameters[key]

IsWildcard(e) == e.fault = "none" /\ e.subtype = "*"

IsConcrete(e) == e.fault = "none" /\ e.type # "*" /\ e.subtype # "*"

\* wildcard-ness of type and subtype, and the number of parameters
Specificity(type, subtype, parameters) ==
    <<type = "*", subtype = "*", Cardinality(DOMAIN parameters)>>

Slots == DOMAIN availableMediaTypes

-----------------------------------------------------------------------------
(* The claims *)

\* C1: when the header parsed without error, the slot returned has the highest
\* recorded weight, that weight is above 0, and among the slots of that weight
\* it has the lowest declaration order; each slot's recorded weight and order
\* are those of the listed range it records; ErrNoAcceptableTypeFound is
\* returned exactly when no slot has a weight above 0.
C1_WinnerSelection ==
    ParsedWhole =>
        /\ (result.err = "ErrNoAcceptableTypeFound") <=> (\A i \in Slots : weights[i].weight = 0)
        /\ \A i \in Slots :
              weights[i].mediaType # ZeroMediaType =>
                  /\ weights[i].order + 1 \in DOMAIN listed
                  /\ listed[weights[i].order + 1].type = weights[i].mediaType.Type
                  /\ listed[weights[i].order + 1].subtype = weights[i].mediaType.Subtype
                  /\ listed[weights[i].order + 1].q = weights[i].weight
        /\ result.err = "nil" =>
              /\ resultIndex + 1 \in Slots
              /\ result.mediaType = availableMediaTypes[resultIndex + 1]
              /\ weights[resultIndex + 1].weight > 0
              /\ \A i \in Slots :
                    /\ weights[i].weight <= weights[resultIndex + 1].weight
                    /\ weights[i].weight = weights[resultIndex + 1].weight
                          => weights[resultIndex + 1].order <= weights[i].order

\* two slots share the highest weight and the later slot, declared earlier, won
C1_Witness ==
    /\ Succeeded
    /\ resultIndex = 1
    /\ weights[1].weight = weights[2].weight
    /\ weights[2].order < weights[1].order

ExampleCall ==
    /\ pc = "done"
    /\ availableMediaTypes = <<NewMediaType("text/html"), NewMediaType("application/json")>>
    /\ acceptHeaders = <<"application/json;q=0.9, text/html;q=0.9">>

\* C2, as amended: with available types [text/html, application/json] and the
\* header "application/json;q=0.9, text/html;q=0.9" the call returns
\* application/json, the type whose range the header lists first.
C2_ExampleReturnsJson ==
    ExampleCall =>
        /\ result.err = "nil"
        /\ result.mediaType = NewMediaType("application/json")

C2_Witness == ExampleCall /\ result.err = "nil"

\* C2, as claimed: that call returns text/html.
C2_Original ==
    ExampleCall =>
        /\ result.err = "nil"
        /\ result.mediaType = NewMediaType("text/html")

\* C3, as claimed: when the header lists a wildcard range and a concrete range
\* that both match an available type, the weight recorded for that type once
\* the header is processed is that of a concrete range, whatever the order and
\* the parameters of the two.
C3_Original ==
    ParsedWhole =>
        \A i \in Slots :
            (/\ \E w \in DOMAIN listed :
                   IsWildcard(listed[w]) /\ RangeMatches(listed[w], availableMediaTypes[i])
             /\ \E c \in DOMAIN listed :
                   IsConcrete(listed[c]) /\ RangeMatches(listed[c], availableMediaTypes[i]))
            => /\ weights[i].mediaType.Subtype # "*"
               /\ \E c \in DOMAIN listed :
                     /\ IsConcrete(listed[c])
                     /\ RangeMatches(listed[c], availableMediaTypes[i])
                     /\ weights[i].weight = listed[c].q

\* getWeight's grammar, as the claim states it
QualityValue(str) ==
    /\ Len(str) <= 5
    /\ Len(str) >= 1
    /\ At(str, 1) \in {"0", "1"}
    /\ Len(str) >= 2 => At(str, 2) = "."
    /\ \A i \in 3..Len(str) :
          /\ At(str, i) \in {"0", "1", "2", "3", "4", "5", "6", "7", "8", "9"}
          /\ At(str, 1) = "1" => At(str, i) = "0"

DigitAt(str, i) == IF i <= Len(str) THEN Ord(At(str, i)) - 48 ELSE 0

\* 1000 times the decimal number a quality value writes
Thousandths(str) ==
    1000 * DigitAt(str, 1) + 100 * DigitAt(str, 3) + 10 * DigitAt(str, 4) + DigitAt(str, 5)

\* C4, as claimed: getWeight accepts exactly the strings of at most 5
\* characters that start with 0 or 1, go on with "." and then with digits (only
\* 0 after a leading 1), and returns 1000 times their value, within 0..1000.
C4_Original ==
    pc = "returned" =>
        /\ out.ok <=> QualityValue(arg)
        /\ out.ok => out.weight = Thousandths(arg) /\ out.weight \in 0..1000

\* C5, as claimed: a malformed parameter after q fails the call with
\* ErrInvalidExtensionParameter, a malformed one before q with ErrInvalidParameter.
C5_Original ==
    Completed =>
        /\ FirstFault = "extension" => result.err = "ErrInvalidExtensionParameter"
        /\ FirstFault = "parameter" => result.err = "ErrInvalidParameter"

\* C6: a media type is returned only when the whole header was consumed, and a
\* complete media range followed by a character other than "," fails the call
\* with ErrInvalidMediaRange, whatever the ranges before it matched.
C6_WholeHeaderConsumed ==
    Completed =>
        /\ result.err = "nil" => s = ""
        /\ FirstFault = "junk" => result.err = "ErrInvalidMediaRange"

\* the call failed on input left over although a slot had a weight above 0
C6_Witness ==
    /\ Completed
    /\ FirstFault = "junk"
    /\ result.err = "ErrInvalidMediaRange"
    /\ \E i \in Slots : weights[i].weight > 0

\* C7: the media type returned for a request with an Accept header is one of
\* the available ones, and the header lists a range of weight above 0 that
\* matches it: by type, by subtype, and by each of its parameters before q.
C7_WinnerOfferedAndAccepted ==
    Succeeded =>
        /\ \E i \in Slots : availableMediaTypes[i] = result.mediaType
        /\ \E k \in DOMAIN listed :
              /\ listed[k].q > 0
              /\ RangeMatches(listed[k], result.mediaType)

\* a media type with a parameter was returned for a range that names it
C7_Witness ==
    /\ Succeeded
    /\ \E k \in DOMAIN listed :
          /\ listed[k].q > 0
          /\ DOMAIN listed[k].parameters # {}
          /\ RangeMatches(listed[k], result.mediaType)
          /\ \A j \in DOMAIN listed : j # k => ~RangeMatches(listed[j], result.mediaType)

\* str is type "/" subtype, both non-empty and of token characters only
TypeSlashSubtype(str) ==
    \E i \in 2..(Len(str) - 1) :
        /\ At(str, i) = "/"
        /\ \A j \in (1..Len(str)) \ {i} : isTokenChar(At(str, j))

RoundTrip == pc = "returned" /\ TypeSlashSubtype(arg) /\ out.mediaType # ZeroMediaType

\* C8, as amended: for a string type/subtype of token characters that
\* NewMediaType accepts, String gives back the string with its upper-case
\* letters folded to lower case.
C8_RoundTripLowerCased == RoundTrip => out.string = ToLower(arg)

C8_Witness == RoundTrip /\ out.string # arg

\* C8, as claimed: String gives back the string exactly.
C8_Original == RoundTrip => out.string = arg

\* the part of a Type before its first ";"
BeforeSemicolon(t) ==
    UpTo(t, CHOOSE n \in 0..Len(t) :
                /\ \A j \in 1..n : At(t, j) # ";"
                /\ n = Len(t) \/ At(t, n + 1) = ";")

\* C9, as claimed: Matches holds exactly when the parts before the first ";"
\* are equal ignoring case, Equals exactly when the whole strings are; Equals
\* implies Matches and both are symmetric.
C9_Original ==
    pc = "returned" =>
        /\ out.Match <=> EqualFold(BeforeSemicolon(arg.A), BeforeSemicolon(arg.B))
        /\ out.Equal <=> EqualFold(arg.A, arg.B)
        /\ out.Equal => out.Match
        /\ out.Match <=> Matches(arg.B, arg.A)
        /\ out.Equal <=> Equals(arg.B, arg.A)

\* the listed ranges of the specificity slot i records that match its type
Peers(i) ==
    {k \in DOMAIN listed :
        /\ RangeMatches(listed[k], availableMediaTypes[i])
        /\ Specificity(listed[k].type, listed[k].subtype, listed[k].parameters)
             = Specificity(weights[i].mediaType.Type, weights[i].mediaType.Subtype,
                           weights[i].mediaType.Parameters)}

Earliest(K) == CHOOSE k \in K : \A j \in K : k <= j

\* C10, as claimed: of the listed ranges of one specificity that match an
\* available type, the earliest is the one whose weight, extension parameters
\* and declaration order are recorded whenever a range of that specificity is
\* the one recorded at the end.
C10_Original ==
    ParsedWhole =>
        \A i \in Slots :
            (weights[i].mediaType # ZeroMediaType /\ Peers(i) # {}) =>
                /\ weights[i].order = Earliest(Peers(i)) - 1
                /\ weights[i].weight = listed[Earliest(Peers(i))].q
                /\ weights[i].extensionParameters = listed[Earliest(Peers(i))].ext

\* the positions of the call
Positions == {"begin", "range", "params", "extensions", "score", "finish", "done"}

\* Rank runs from 0 to RankSpan
RankSpan == Cardinality(Positions) - 1

\* a turn of the media-range loop that goes on to the range's parameters
RangeTurn == pc = "range" /\ pc' = "params"

\* a turn of one of the two parameter loops that did not return an error
ParameterTurn ==
    /\ pc \in {"params", "extensions"}
    /\ Len(s) > 0 /\ Head(s) = ";"
    /\ pc' # "done"

\* the loops' position, later positions of one turn of the media-range loop
\* ranking lower and the head of the next turn lower still
Rank ==
    CASE pc = "begin" -> 6
      [] pc = "params" -> 5
      [] pc = "extensions" -> 4
      [] pc = "score" -> 3
      [] pc = "range" -> 2
      [] pc = "finish" -> 1
      [] pc = "done" -> 0

\* the length of the header the call reads, none being read as empty
HeaderLength == IF Len(acceptHeaders) > 0 THEN Len(acceptHeaders[1]) ELSE 0

\* what is left to do: the input left, then the position in the turn
Variant == RankSpan * Len(s) + Rank

\* C11: every turn of the media-range loop and of the two parameter loops that
\* returns no error leaves strictly less input; every step of the call after
\* its first lowers a natural number that starts no higher than the header's
\* length allows, so the call returns after a number of turns bounded by that
\* length; the media ranges counted never exceed the header's length.
C11_Terminates ==
    /\ [][(RangeTurn \/ ParameterTurn) => Len(s') < Len(s)]_vars
    /\ [][pc # "begin" => Variant' < Variant]_vars
    /\ [][pc = "begin" => Variant' <= RankSpan * HeaderLength + RankSpan]_vars
    /\ [](mediaTypeCount <= HeaderLength)

\* a call that went three times round the media-range loop, and round the
\* loop of the extension parameters, has returned
C11_Witness ==
    /\ Succeeded
    /\ mediaTypeCount = 3
    /\ \E i \in Slots : DOMAIN weights[i].extensionParameters # {}

====
